---- MODULE Spec2Model ----
(***************************************************************************)
(* Model of scripts/generate_sample_plots.py: the script reads the         *)
(* concentration-time table, then builds six figures one after the other.  *)
(* Each figure block selects per-subject rows and/or the group-by          *)
(* aggregate, hands them to the plotting calls and saves one image.        *)
(*                                                                         *)
(* Numbers.  Concentrations are small integers; a mean or a variance is an *)
(* exact fraction [num, den] in lowest terms.  The 'std' column is kept as *)
(* its square (the sample variance), since the root of a fraction is not a *)
(* fraction.  NaN is the fraction 0/0, which is how it arises: a sum of    *)
(* squared deviations of 0 divided by n - 1 = 0.                           *)
(***************************************************************************)
EXTENDS Integers, Sequences, FiniteSets

VARIABLES file, pc, df, colors, subjects, mean_data, mean_nonzero,
          lines, bars, saved, error

vars == <<file, pc, df, colors, subjects, mean_data, mean_nonzero,
          lines, bars, saved, error>>

(* ------------------------------ bounds -------------------------------- *)

MaxRows == 3

SubjectIds == {7, 3}
Times == {0, 1}
Concs == {0, 4, 6}

(* ------------------------------ the table ----------------------------- *)

Columns == {"Subject_ID", "Time_h", "Concentration_mg_L"}

Row == [Subject_ID : SubjectIds, Time_h : Times, Concentration_mg_L : Concs]

Figures == <<"individual_concentration_time.png", "spaghetti_linear.png",
             "spaghetti_semilog.png", "mean_concentration_time.png",
             "mean_concentration_time_semilog.png",
             "combined_concentration_time.png">>

FigureSet == {Figures[i] : i \in DOMAIN Figures}

NoError == [kind |-> "none", arg |-> "", line |-> 0]

EmptyFrame == [columns |-> {}, rows |-> <<>>, object |-> FALSE]

\* The files the script can be given: a header with at most one of the three
\* columns absent, one to MaxRows data rows, and a concentration column that
\* either parses as numbers or holds a cell that does not (pandas then keeps
\* the whole column as strings, dtype object).
Files ==
    { [columns |-> c, rows |-> r, object |-> o] :
        c \in {Columns} \cup {Columns \ {m} : m \in Columns},
        r \in UNION {[1..n -> Row] : n \in 1..MaxRows},
        o \in BOOLEAN }

(* ------------------------------ fractions ----------------------------- *)

RECURSIVE GCD(_, _)
GCD(a, b) == IF b = 0 THEN a ELSE GCD(b, a % b)

NaN == [num |-> 0, den |-> 0]

Frac(n, d) ==
    IF d = 0 THEN NaN
    ELSE LET g == GCD(n, d) IN [num |-> n \div g, den |-> d \div g]

IsNaN(q) == q.den = 0

(* ------------------------------ pandas -------------------------------- *)

RECURSIVE Sum(_)
Sum(xs) == IF xs = <<>> THEN 0 ELSE xs[1] + Sum(Tail(xs))

Column(rows, name) == [i \in DOMAIN rows |-> rows[i][name]]

\* Series.unique(): the distinct values in order of first appearance.
UniqueKeepAll(col) == col

RECURSIVE Unique(_)
Unique(col) ==
    IF col = <<>> THEN <<>>
    ELSE LET init == Unique(SubSeq(col, 1, Len(col) - 1))
             last == col[Len(col)]
         IN  IF \E i \in DOMAIN init : init[i] = last
             THEN init ELSE Append(init, last)

\* df[df['Subject_ID'] == subject]: the rows of the subject, in table order.
IsSubject(r, subject) == r.Subject_ID = subject

SubjectData(rows, subject) == SelectSeq(rows, LAMBDA r : IsSubject(r, subject))

\* subject_data[subject_data['Concentration_mg_L'] > 0]
DataNonzero(subject_data) ==
    SelectSeq(subject_data, LAMBDA r : r.Concentration_mg_L > 0)

\* The keys of groupby('Time_h'): the distinct times, sorted ascending.
RECURSIVE SortedSeq(_)
SortedSeq(S) ==
    IF S = {} THEN <<>>
    ELSE LET m == CHOOSE x \in S : \A y \in S : x <= y
         IN  <<m>> \o SortedSeq(S \ {m})

GroupKeys(rows) == SortedSeq({rows[i].Time_h : i \in DOMAIN rows})

\* The concentrations of one group: the rows whose Time_h equals the key.
GroupUpTo(rows, t) ==
    Column(SelectSeq(rows, LAMBDA r : r.Time_h <= t), "Concentration_mg_L")

Group(rows, t) ==
    Column(SelectSeq(rows, LAMBDA r : r.Time_h = t), "Concentration_mg_L")

\* 'mean': sum / n.
Mean(xs) == Frac(Sum(xs), Len(xs))

\* 'std' (squared): sum((x - mean)^2) / (n - 1), pandas' default ddof of 1.
\* With mean = S/n, (x - mean)^2 = (n*x - S)^2 / n^2.
SumSqDev(xs) ==
    LET n == Len(xs)
        S == Sum(xs)
    IN  Frac(Sum([i \in DOMAIN xs |-> (n * xs[i] - S) * (n * xs[i] - S)]), n * n)

StdSqPopulation(xs) ==
    LET ssd == SumSqDev(xs) IN Frac(ssd.num, ssd.den * Len(xs))

StdSqFillZero(xs) ==
    LET ssd == SumSqDev(xs)
    IN  IF Len(xs) = 1 THEN Frac(0, 1) ELSE Frac(ssd.num, ssd.den * (Len(xs) - 1))

StdSq(xs) ==
    LET ssd == SumSqDev(xs) IN Frac(ssd.num, ssd.den * (Len(xs) - 1))

\* df.groupby('Time_h')['Concentration_mg_L'].agg(['mean', 'std']).reset_index()
Agg(rows) ==
    LET keys == GroupKeys(rows)
    IN  [i \in DOMAIN keys |->
            [Time_h |-> keys[i],
             mean   |-> Mean(Group(rows, keys[i])),
             std_sq |-> StdSq(Group(rows, keys[i]))]]

\* mean_data[mean_data['mean'] > 0]
MeanNonzeroByTime(md) == SelectSeq(md, LAMBDA p : p.Time_h > 0)

MeanNonzero(md) == SelectSeq(md, LAMBDA p : p.mean.num > 0)

\* The first column a figure block reads that the table lacks, "" if none.
\* A per-subject loop reads Time_h, then Concentration_mg_L, and only when it
\* has a subject to iterate over.
MissingInLoop(frame, subs) ==
    IF subs = <<>> THEN ""
    ELSE IF "Time_h" \notin frame.columns THEN "Time_h"
    ELSE IF "Concentration_mg_L" \notin frame.columns THEN "Concentration_mg_L"
    ELSE ""

MissingInGroupby(frame) ==
    IF "Time_h" \notin frame.columns THEN "Time_h"
    ELSE IF "Concentration_mg_L" \notin frame.columns THEN "Concentration_mg_L"
    ELSE ""

SubjectSeries(rows, subs) == [i \in DOMAIN subs |-> SubjectData(rows, subs[i])]

(* ------------------------------ the script ---------------------------- *)

Init ==
    /\ file \in Files
    /\ pc = "read_csv"
    /\ df = EmptyFrame
    /\ colors = 0
    /\ subjects = <<>>
    /\ mean_data = <<>>
    /\ mean_nonzero = <<>>
    /\ lines = [f \in FigureSet |-> <<>>]
    /\ bars = [f \in FigureSet |-> <<>>]
    /\ saved = {}
    /\ error = NoError

Raise(kind, arg, line) ==
    /\ pc' = "failed"
    /\ error' = [kind |-> kind, arg |-> arg, line |-> line]

ReadCsv ==
    /\ pc = "read_csv"
    /\ df' = file
    /\ pc' = "colors"
    /\ UNCHANGED <<file, colors, subjects, mean_data, mean_nonzero,
                   lines, bars, saved, error>>

ColorPalette ==
    /\ pc = "colors"
    /\ IF "Subject_ID" \notin df.columns
       THEN /\ Raise("KeyError", "Subject_ID", 37)
            /\ UNCHANGED colors
       ELSE /\ colors' = Len(Unique(Column(df.rows, "Subject_ID")))
            /\ pc' = "fig1"
            /\ UNCHANGED error
    /\ UNCHANGED <<file, df, subjects, mean_data, mean_nonzero, lines, bars, saved>>

\* 1. individual_concentration_time.png
Fig1 ==
    /\ pc = "fig1"
    /\ subjects' = Unique(Column(df.rows, "Subject_ID"))
    /\ LET missing == MissingInLoop(df, subjects') IN
       IF missing # ""
       THEN /\ Raise("KeyError", missing, 45)
            /\ UNCHANGED <<lines, saved>>
       ELSE /\ lines' = [lines EXCEPT ![Figures[1]] = SubjectSeries(df.rows, subjects')]
            /\ saved' = saved \cup {Figures[1]}
            /\ pc' = "fig2"
            /\ UNCHANGED error
    /\ UNCHANGED <<file, df, colors, mean_data, mean_nonzero, bars>>

\* 2. spaghetti_linear.png
Fig2 ==
    /\ pc = "fig2"
    /\ LET missing == MissingInLoop(df, subjects) IN
       IF missing # ""
       THEN /\ Raise("KeyError", missing, 66)
            /\ UNCHANGED <<lines, saved>>
       ELSE /\ lines' = [lines EXCEPT ![Figures[2]] = SubjectSeries(df.rows, subjects)]
            /\ saved' = saved \cup {Figures[2]}
            /\ pc' = "fig3"
            /\ UNCHANGED error
    /\ UNCHANGED <<file, df, colors, subjects, mean_data, mean_nonzero, bars>>

\* 3. spaghetti_semilog.png
Fig3 ==
    /\ pc = "fig3"
    /\ LET missing == IF subjects = <<>> THEN ""
                      ELSE IF "Concentration_mg_L" \notin df.columns
                           THEN "Concentration_mg_L"
                      ELSE IF "Time_h" \notin df.columns THEN "Time_h"
                      ELSE ""
       IN
       IF missing # ""
       THEN /\ Raise("KeyError", missing, 86)
            /\ UNCHANGED <<lines, saved>>
       ELSE IF subjects # <<>> /\ df.object
       THEN /\ Raise("TypeError", "Concentration_mg_L", 86)
            /\ UNCHANGED <<lines, saved>>
       ELSE /\ lines' = [lines EXCEPT ![Figures[3]] =
                           [i \in DOMAIN subjects |->
                               DataNonzero(SubjectData(df.rows, subjects[i]))]]
            /\ saved' = saved \cup {Figures[3]}
            /\ pc' = "fig4"
            /\ UNCHANGED error
    /\ UNCHANGED <<file, df, colors, subjects, mean_data, mean_nonzero, bars>>

\* 4. mean_concentration_time.png
Fig4 ==
    /\ pc = "fig4"
    /\ LET missing == MissingInGroupby(df) IN
       IF missing # ""
       THEN /\ Raise("KeyError", missing, 102)
            /\ UNCHANGED <<mean_data, bars, saved>>
       ELSE IF df.object
       THEN /\ Raise("TypeError", "Concentration_mg_L", 102)
            /\ UNCHANGED <<mean_data, bars, saved>>
       ELSE /\ mean_data' = Agg(df.rows)
            /\ bars' = [bars EXCEPT ![Figures[4]] = <<mean_data'>>]
            /\ saved' = saved \cup {Figures[4]}
            /\ pc' = "fig5"
            /\ UNCHANGED error
    /\ UNCHANGED <<file, df, colors, subjects, mean_nonzero, lines>>

\* 5. mean_concentration_time_semilog.png
Fig5InPlace ==
    /\ pc = "fig5"
    /\ mean_nonzero' = MeanNonzero(mean_data)
    /\ mean_data' = mean_nonzero'
    /\ bars' = [bars EXCEPT ![Figures[5]] = <<mean_nonzero'>>]
    /\ saved' = saved \cup {Figures[5]}
    /\ pc' = "fig6"
    /\ UNCHANGED <<file, df, colors, subjects, lines, error>>

Fig5 ==
    /\ pc = "fig5"
    /\ mean_nonzero' = MeanNonzero(mean_data)
    /\ bars' = [bars EXCEPT ![Figures[5]] = <<mean_nonzero'>>]
    /\ saved' = saved \cup {Figures[5]}
    /\ pc' = "fig6"
    /\ UNCHANGED <<file, df, colors, subjects, mean_data, lines, error>>

\* 6. combined_concentration_time.png
Fig6 ==
    /\ pc = "fig6"
    /\ LET missing == MissingInLoop(df, subjects) IN
       IF missing # ""
       THEN /\ Raise("KeyError", missing, 149)
            /\ UNCHANGED <<lines, bars, saved>>
       ELSE /\ lines' = [lines EXCEPT ![Figures[6]] = SubjectSeries(df.rows, subjects)]
            /\ bars' = [bars EXCEPT ![Figures[6]] = <<mean_data>>]
            /\ saved' = saved \cup {Figures[6]}
            /\ pc' = "done"
            /\ UNCHANGED error
    /\ UNCHANGED <<file, df, colors, subjects, mean_data, mean_nonzero>>

Next ==
    \/ ReadCsv
    \/ ColorPalette
    \/ Fig1
    \/ Fig2
    \/ Fig3
    \/ Fig4
    \/ Fig5
    \/ Fig6

Spec == Init /\ [][Next]_vars

(* ------------------------------ properties ---------------------------- *)

\* What the properties count, taken straight from the table's rows.
RowsAt(t) == {j \in DOMAIN df.rows : df.rows[j].Time_h = t}

TimesPresent == {df.rows[j].Time_h : j \in DOMAIN df.rows}

RECURSIVE SumConc(_)
SumConc(J) ==
    IF J = {} THEN 0
    ELSE LET j == CHOOSE x \in J : TRUE
         IN  df.rows[j].Concentration_mg_L + SumConc(J \ {j})

RECURSIVE SumSqConc(_)
SumSqConc(J) ==
    IF J = {} THEN 0
    ELSE LET j == CHOOSE x \in J : TRUE
         IN  df.rows[j].Concentration_mg_L * df.rows[j].Concentration_mg_L
               + SumSqConc(J \ {j})

Count(r, s) == Cardinality({k \in DOMAIN s : s[k] = r})

\* The k-th smallest index of a set of indices.
Kth(J, k) == CHOOSE j \in J : Cardinality({m \in J : m <= j}) = k

\* s is exactly the elements of f at the indices J, in f's order.
IsRestriction(s, f, J) ==
    /\ Len(s) = Cardinality(J)
    /\ \A k \in DOMAIN s : s[k] = f[Kth(J, k)]

AggBuilt == pc \in {"fig5", "fig6", "done"}

Terminated == pc \in {"failed", "done"}

WellFormed == file.columns = Columns /\ ~file.object

HasDuplicate(rows) ==
    \E a, b \in DOMAIN rows :
        /\ a < b
        /\ rows[a].Subject_ID = rows[b].Subject_ID
        /\ rows[a].Time_h = rows[b].Time_h

\* C1: once the group-by has run, every time present in the table has exactly
\* one aggregate point, whose mean is sum/n over exactly the rows at that time;
\* no point stands for an absent time, and the points ascend by time.
C1_MeanPerTime ==
    AggBuilt =>
        /\ \A t \in TimesPresent :
              /\ Cardinality({i \in DOMAIN mean_data : mean_data[i].Time_h = t}) = 1
              /\ \A i \in DOMAIN mean_data :
                    mean_data[i].Time_h = t =>
                        /\ mean_data[i].mean.den > 0
                        /\ mean_data[i].mean.num * Cardinality(RowsAt(t))
                             = mean_data[i].mean.den * SumConc(RowsAt(t))
        /\ \A i \in DOMAIN mean_data : mean_data[i].Time_h \in TimesPresent
        /\ \A i, k \in DOMAIN mean_data :
              i < k => mean_data[i].Time_h < mean_data[k].Time_h

\* Two times are present, one of them shared by several rows.
C1_Witness ==
    /\ AggBuilt
    /\ Len(mean_data) = 2
    /\ \E t \in TimesPresent :
          /\ Cardinality(RowsAt(t)) = 2
          /\ SumConc(RowsAt(t)) = 10
          /\ t = 1

\* C2: every per-subject series handed to a plot call is strictly ascending
\* by time, whatever the row order of the file.
C2_SeriesStrictlyAscending ==
    \A f \in FigureSet : \A i \in DOMAIN lines[f] :
        \A k \in 1..(Len(lines[f][i]) - 1) :
            lines[f][i][k].Time_h < lines[f][i][k + 1].Time_h

\* C3: a table with two rows of the same subject at the same time never gets
\* past the first per-subject derivation: no series is handed out and the run
\* ends in a DuplicateObservationError.
C3_DuplicateRejected ==
    (WellFormed /\ HasDuplicate(file.rows) /\ pc \notin {"read_csv", "colors", "fig1"})
        => /\ error.kind = "DuplicateObservationError"
           /\ \A f \in FigureSet : lines[f] = <<>>

\* C4 as stated: a time with a single row gets standard deviation 0, and no
\* aggregate point carries a NaN standard deviation.
C4_StdZeroWhenSingle ==
    AggBuilt =>
        \A i \in DOMAIN mean_data :
            /\ ~IsNaN(mean_data[i].std_sq)
            /\ Cardinality(RowsAt(mean_data[i].Time_h)) = 1
                  => mean_data[i].std_sq = Frac(0, 1)

\* C4 amended: a time with a single row gets an undefined (NaN) standard
\* deviation, NaN appears at no other time, its mean is still the single
\* value, and the aggregation step itself never fails.
C4_StdNaNWhenSingle ==
    /\ AggBuilt =>
          \A i \in DOMAIN mean_data :
              /\ IsNaN(mean_data[i].std_sq)
                    <=> Cardinality(RowsAt(mean_data[i].Time_h)) = 1
              /\ ~IsNaN(mean_data[i].mean)
    /\ pc = "failed" => error.line # 102

\* A run that finished with a single-row time in its aggregate.
C4_Witness ==
    /\ pc = "done"
    /\ \E i \in DOMAIN mean_data :
          /\ Cardinality(RowsAt(mean_data[i].Time_h)) = 1
          /\ IsNaN(mean_data[i].std_sq)
          /\ mean_data[i].mean = Frac(6, 1)
    /\ \E i \in DOMAIN mean_data : ~IsNaN(mean_data[i].std_sq)

\* C5: a run that ends has written all six images or, if it failed, none.
C5_AllOrNothing ==
    /\ pc = "failed" => saved = {}
    /\ pc = "done" => saved = FigureSet

\* C6: with a required column absent the run ends in a SchemaError naming
\* that column, before the subject list, any per-subject selection, the
\* aggregate or any image exists.
C6_SchemaErrorBeforeDerivation ==
    (file.columns # Columns /\ Terminated)
        => /\ error.kind = "SchemaError"
           /\ error.arg \in Columns \ file.columns
           /\ subjects = <<>>
           /\ mean_data = <<>>
           /\ \A f \in FigureSet : lines[f] = <<>> /\ bars[f] = <<>>
           /\ saved = {}

C8_NoMutation ==
    /\ pc # "read_csv" => df = file
    /\ AggBuilt => bars[Figures[4]] = <<mean_data>>
    /\ pc = "done" =>
          /\ lines[Figures[6]] = lines[Figures[1]]
          /\ bars[Figures[6]] = bars[Figures[4]]

\* The filters did drop something, and the combined plot still has it.
C8_Witness ==
    /\ pc = "done"
    /\ mean_nonzero # mean_data
    /\ lines[Figures[3]] # lines[Figures[1]]
    /\ \E i \in DOMAIN lines[Figures[6]] : \E k \in DOMAIN lines[Figures[6]][i] :
          lines[Figures[6]][i][k].Concentration_mg_L = 0
    /\ \E i \in DOMAIN bars[Figures[6]][1] : bars[Figures[6]][1][i].mean.num = 0

\* C9: at a time with n >= 2 rows the standard deviation is the sample one:
\* std^2 * (n - 1) = sum(x^2) - (sum x)^2 / n, the sum of squared deviations
\* from the mean; concentrations 4 and 6 give mean 5 and variance 2.
C9_SampleStd ==
    AggBuilt =>
        \A i \in DOMAIN mean_data :
            LET J  == RowsAt(mean_data[i].Time_h)
                n  == Cardinality(J)
                sq == mean_data[i].std_sq
            IN  /\ n >= 2 =>
                      /\ sq.den > 0
                      /\ sq.num * n * (n - 1)
                           = sq.den * (n * SumSqConc(J) - SumConc(J) * SumConc(J))
                /\ (n = 2 /\ {df.rows[j].Concentration_mg_L : j \in J} = {4, 6}) =>
                      /\ mean_data[i].mean = [num |-> 5, den |-> 1]
                      /\ sq = [num |-> 2, den |-> 1]

\* Two subjects with concentrations 4 and 6 at the same time.
C9_Witness ==
    /\ AggBuilt
    /\ \E i \in DOMAIN mean_data :
          LET J == RowsAt(mean_data[i].Time_h)
          IN  /\ Cardinality(J) = 2
              /\ {df.rows[j].Concentration_mg_L : j \in J} = {4, 6}
              /\ {df.rows[j].Subject_ID : j \in J} = {3, 7}
              /\ mean_data[i].std_sq = [num |-> 2, den |-> 1]

====
